---- MODULE Spec2Model ----
(***************************************************************************)
(* Decode-time core of mistral.rs: the constrained decode step             *)
(* (sample_sequence), the speculative decode step                          *)
(* (sample_target_sequence_speculative) and the Gemma / Llama pipelines    *)
(* (loader _setup_model, forward, is_xlora).                               *)
(*                                                                         *)
(* Four specifications share the module: SpecSampling drives the decode    *)
(* steps of one Sequence, SpecPipeline one loader and the Pipeline it      *)
(* constructs, SpecLoader several _setup_model calls and the Pipelines     *)
(* they leave, SpecServer the scheduler threads sharing two Pipelines.     *)
(***************************************************************************)
EXTENDS Integers, Sequences, FiniteSets, TLC

VARIABLES
    toks,          \* Sequence: the token ids held by the sequence (get_toks)
    recognizer,    \* Sequence.recognizer: [kind, st]
    sampler,       \* Sequence.sampler(): the sampling configuration
    rng,           \* the shared Isaac64Rng behind Arc<Mutex<..>>
    repeat_last_n, \* the repeat window length handed to the decode step
    return_logprobs, \* whether the request asked for log-probabilities
    advances,      \* number of tok_trie.append_token calls made on the recognizer
    accepted,      \* number of sampled tokens the caller accepted into the sequence
    calls,         \* number of decode calls made on the sequence
    errors,        \* number of decode calls that returned an error (or aborted)
    pc,            \* "idle" | "sampled" | "speculated": the caller's position
    last,          \* record of the last decode call (its inputs and its outcome)
    pipe,          \* the constructed Pipeline (or the loader's failure)
    ngIndex,       \* NonGranularState.non_granular_index
    fwd,           \* record of the forward calls made on the Pipeline
    pipelines,     \* the results of the _setup_model calls made so far, in call order
    counters,      \* the Arc<Mutex<usize>> cells allocated so far (non_granular_index)
    mutexes,       \* per Pipeline, the thread holding its Mutex (0: unlocked)
    threads,       \* per scheduler thread, its position and the Pipeline it works on
    caches         \* per Pipeline, the KV cache: its length and its writer

samplingVars == <<toks, recognizer, sampler, rng, repeat_last_n, return_logprobs,
                  advances, accepted, calls, errors, pc, last>>
pipelineVars == <<pipe, ngIndex, fwd>>
loaderVars == <<pipelines, counters>>
serverVars == <<mutexes, threads, caches>>
vars == <<toks, recognizer, sampler, rng, repeat_last_n, return_logprobs,
          advances, accepted, calls, errors, pc, last,
          pipe, ngIndex, fwd, pipelines, counters, mutexes, threads, caches>>

----------------------------------------------------------------------------
(* Bounds *)

VocabSize == 5      \* tokens 0..4 are "a","b","1","2","</s>"
MaxToks == 3        \* the sequence is driven until it holds this many tokens
MaxCalls == 2       \* decode calls made on the sequence
MaxSpec == 2        \* positions of the logits tensor of a speculative call
RngStates == 2      \* states of the randomness source
MaxRepeat == 2      \* largest repeat_last_n
MaxForward == 4     \* forward calls made on the Pipeline
PoolSize == 1       \* sequences the scheduler batches from
MaxHist == 2        \* longest token history of a scheduled sequence
TgtIndex == 3       \* the target non-granular index a loader is given
MaxPipelines == 2   \* _setup_model calls made by the loaders
MaxSteps == 2       \* forward calls made on the Pipelines the loaders built
NumThreads == 2     \* scheduler threads sharing the Pipelines
MaxCache == 2       \* forward calls a Pipeline's KV cache is grown by

Vocab == 0 .. (VocabSize - 1)
NoTok == VocabSize

\* The byte string of a token id (TokTrie::token).
TokenStr(t) ==
    CASE t = 0 -> "a"
      [] t = 1 -> "b"
      [] t = 2 -> "1"
      [] t = 3 -> "2"
      [] t = 4 -> "</s>"
      [] OTHER -> "?"

DigitToks == {t \in Vocab : TokenStr(t) \in {"1", "2"}}
EosToks == {t \in Vocab : TokenStr(t) = "</s>"}

----------------------------------------------------------------------------
(* Small helpers *)

SeqToSet(s) == {s[i] : i \in 1 .. Len(s)}

\* The i-th smallest element (1-based) of a non-empty set of integers.
RECURSIVE NthOf(_, _)
NthOf(S, i) ==
    LET m == CHOOSE x \in S : \A y \in S : x <= y
    IN IF i <= 1 THEN m ELSE NthOf(S \ {m}, i - 1)

----------------------------------------------------------------------------
(* Grammar recognizers and the vocabulary trie *)

RecKinds == {"None", "Regex", "Cfg"}

\* The tokens a recognizer state accepts next.
\*   Regex: digits only, [12]+ then end of sequence.
\*   Cfg:   S -> "a" X | digit "</s>"*, where no token of the vocabulary starts X,
\*          so that the state after "a" accepts nothing (total rejection).
AllowedToks(rec) ==
    CASE rec.kind = "Regex" /\ rec.st = "start" -> DigitToks
      [] rec.kind = "Regex" /\ rec.st = "some"  -> DigitToks \cup EosToks
      [] rec.kind = "Regex" /\ rec.st = "end"   -> EosToks
      [] rec.kind = "Cfg"   /\ rec.st = "start" -> DigitToks \cup {t \in Vocab : TokenStr(t) = "a"}
      [] rec.kind = "Cfg"   /\ rec.st = "some"  -> EosToks
      [] OTHER -> {}

\* TokTrie::token_allowed
token_allowed(rec, tok) == tok \in AllowedToks(rec)

\* TokTrie::compute_bias: the token set of the currently valid tokens
compute_bias(rec) == AllowedToks(rec)

\* TokTrie::append_token: push the token's bytes into the recognizer
append_token(rec, tok) ==
    IF ~token_allowed(rec, tok) THEN [rec EXCEPT !.st = "dead"]
    ELSE CASE rec.kind = "Regex" /\ tok \in DigitToks -> [rec EXCEPT !.st = "some"]
           [] rec.kind = "Regex" /\ tok \in EosToks   -> [rec EXCEPT !.st = "end"]
           [] rec.kind = "Cfg" /\ rec.st = "start" /\ tok \in DigitToks -> [rec EXCEPT !.st = "some"]
           [] rec.kind = "Cfg" /\ rec.st = "start"    -> [rec EXCEPT !.st = "stuck"]
           [] OTHER -> rec

\* get_bias_if_not_allowed!: None when the token is allowed, else Some(token set)
get_bias_if_not_allowed(rec, tok) ==
    IF token_allowed(rec, tok)
    THEN [some |-> FALSE, set |-> {}]
    ELSE [some |-> TRUE, set |-> compute_bias(rec)]

\* TokTrie::vocab_size
vocab_size == VocabSize

----------------------------------------------------------------------------
(* Logits and the Sampler *)

\* A logits vector: fin is the set of tokens whose logit is finite (the others
\* are minus infinity), val the finite values.
OneHot(t) == [fin |-> Vocab, val |-> [u \in Vocab |-> IF u = t THEN 2 ELSE 0]]

\* The logits vectors the forward pass hands to the decode step: each strongly
\* favours one token.
LogitsInputs == {OneHot(t) : t \in {0, 2}}

NoLogprobs == [token |-> NoTok, has_logprob |-> FALSE, finite |-> FALSE, value |-> 0]

SamplerModes == {"argmax", "multinomial"}

\* logits + bias: a token stays finite only where the bias is zero
AddBias(logits, acc) ==
    [fin |-> {t \in logits.fin : t \in DOMAIN acc /\ acc[t] = "zero"}, val |-> logits.val]

\* Repeat penalty over the context window.
Penalised(logits, ctx) ==
    [t \in Vocab |-> IF t \in SeqToSet(ctx) THEN logits.val[t] - 1 ELSE logits.val[t]]

MkLogprobs(tok, logits, ctx, rl) ==
    [token |-> tok,
     has_logprob |-> rl,
     finite |-> rl /\ tok \in logits.fin,
     value |-> IF rl /\ tok \in logits.fin THEN Penalised(logits, ctx)[tok] ELSE 0]

\* Sampler::sample(logits, ctx, return_logprobs, rng).
\*   argmax:      the first token of greatest penalised logit; over a vector that
\*                is minus infinity everywhere all tokens tie and the first wins.
\*   multinomial: draws by the generator among the tokens of non-zero
\*                probability and advances the generator; fails when no token
\*                has a probability (all weights are NaN).
SamplerSample(mode, logits, ctx, rl, r) ==
    LET pen == Penalised(logits, ctx)
        best == IF logits.fin = {} THEN Vocab
                ELSE {t \in logits.fin : \A u \in logits.fin : pen[u] <= pen[t]}
    IN IF mode = "argmax"
       THEN [ok |-> TRUE, lp |-> MkLogprobs(NthOf(best, 1), logits, ctx, rl), rng |-> r]
       ELSE IF logits.fin = {}
            THEN [ok |-> FALSE, lp |-> NoLogprobs, rng |-> r]
            ELSE [ok |-> TRUE,
                  lp |-> MkLogprobs(NthOf(logits.fin, (r % Cardinality(logits.fin)) + 1),
                                    logits, ctx, rl),
                  rng |-> (r + 1) % RngStates]

\* sample_async!: the same Sampler call on the worker pool or on the calling thread
sample_async(use_async_pool, mode, logits, ctx, rl, r) ==
    IF use_async_pool
    THEN SamplerSample(mode, logits, ctx, rl, r)
    ELSE SamplerSample(mode, logits, ctx, rl, r)

----------------------------------------------------------------------------
(* sample_sequence *)

\* Where a decode step can fail: the logits reduction, the tentative sample,
\* the bias addition, the corrective sample.
FailPoints == {"none", "squeeze", "first", "add", "second"}

\* logits.squeeze(0)?.squeeze(0)?.to_dtype(F32)?: squeeze removes an axis of
\* length 1 and leaves any other axis in place, so a chunk of several
\* positions stays two-dimensional.
ReduceLogits(chunk) == [flat |-> Len(chunk) = 1, vec |-> chunk[1]]

RepeatContext_WholeSequence(tk, n) == tk

\* seq.get_toks()[start_at..] with start_at = len.saturating_sub(repeat_last_n)
RepeatContext(tk, n) ==
    LET start_at == IF Len(tk) > n THEN Len(tk) - n ELSE 0
    IN SubSeq(tk, start_at + 1, Len(tk))

BiasIfNotAllowed_NoNoneArm(rec, tok) ==
    [queried |-> TRUE] @@ get_bias_if_not_allowed(rec, tok)

\* match &mut seq.recognizer { Regex | Cfg => get_bias_if_not_allowed!, None => None }
BiasIfNotAllowed(rec, tok) ==
    CASE rec.kind = "Regex" -> [queried |-> TRUE] @@ get_bias_if_not_allowed(rec, tok)
      [] rec.kind = "Cfg"   -> [queried |-> TRUE] @@ get_bias_if_not_allowed(rec, tok)
      [] OTHER              -> [queried |-> FALSE, some |-> FALSE, set |-> {}]

\* vec![-inf; tok_trie.vocab_size()] and token_set.apply_to(&mut acc)
BiasVector(token_set) ==
    [t \in 0 .. (vocab_size - 1) |-> IF t \in token_set THEN "zero" ELSE "ninf"]

NoBias == [t \in {} |-> "ninf"]

\* match seq.recognizer { Regex | Cfg => tok_trie.append_token(..), None => {} }
AdvanceRecognizer(rec, tok) ==
    CASE rec.kind = "Regex" -> [rec |-> append_token(rec, tok), advanced |-> 1]
      [] rec.kind = "Cfg"   -> [rec |-> append_token(rec, tok), advanced |-> 1]
      [] OTHER              -> [rec |-> rec, advanced |-> 0]

SecondResponse_AlwaysResample(bias, vec, first, mode, ctx, rl, use_async_pool) ==
    sample_async(use_async_pool, mode, AddBias(vec, BiasVector(bias.set)), ctx, rl, first.rng)

\* The second response: the corrective sample over the biased logits when a
\* bias was returned, the first response otherwise.
SecondResponse(bias, vec, first, mode, ctx, rl, use_async_pool) ==
    IF bias.some
    THEN sample_async(use_async_pool, mode, AddBias(vec, BiasVector(bias.set)), ctx, rl, first.rng)
    ELSE first

SeqErr(stage, first, ncalls, bias, rec, r, ctx1, ctx2) ==
    [ok |-> FALSE, stage |-> stage, lp |-> NoLogprobs, first |-> first,
     resampled |-> ncalls = 2, samplerCalls |-> ncalls,
     queried |-> bias.queried, biasSome |-> bias.some, biasSet |-> bias.set,
     acc |-> IF bias.some THEN BiasVector(bias.set) ELSE NoBias,
     recBefore |-> rec, recognizer |-> rec, rng |-> r, advanced |-> 0,
     ctx1 |-> ctx1, ctx2 |-> ctx2]

NoQuery == [queried |-> FALSE, some |-> FALSE, set |-> {}]

SamplerErr(r) == [ok |-> FALSE, lp |-> NoLogprobs, rng |-> r]

FirstResponse_PoolDropsContext(red, ctx, mode, rl, r, use_async_pool, fail) ==
    IF fail = "first" \/ ~red.flat
    THEN SamplerErr(r)
    ELSE sample_async(use_async_pool, mode, red.vec,
                      IF use_async_pool THEN <<>> ELSE ctx, rl, r)

\* The tentative sample over the reduced logits.
FirstResponse(red, ctx, mode, rl, r, use_async_pool, fail) ==
    IF fail = "first" \/ ~red.flat
    THEN SamplerErr(r)
    ELSE sample_async(use_async_pool, mode, red.vec, ctx, rl, r)

\* Advance the recognizer by the second response's token and return it.
FinishStep(adv, second, first, bias, rec, ctx1, ctx2) ==
    [ok |-> TRUE, stage |-> "none", lp |-> second.lp, first |-> first.lp,
     resampled |-> bias.some, samplerCalls |-> IF bias.some THEN 2 ELSE 1,
     queried |-> bias.queried, biasSome |-> bias.some, biasSet |-> bias.set,
     acc |-> IF bias.some THEN BiasVector(bias.set) ELSE NoBias,
     recBefore |-> rec, recognizer |-> adv.rec, rng |-> second.rng,
     advanced |-> adv.advanced,
     ctx1 |-> ctx1, ctx2 |-> ctx2]

AfterSecond(second, first, bias, rec, ctx1, ctx2) ==
    IF ~second.ok
    THEN SeqErr("second", first.lp, 2, bias, rec, second.rng, ctx1, ctx2)
    ELSE FinishStep(AdvanceRecognizer(rec, second.lp.token), second, first, bias, rec, ctx1, ctx2)

AfterBias(bias, first, vec, rec, tk, n, mode, rl, use_async_pool, fail, ctx1) ==
    IF bias.some /\ fail = "add"
    THEN SeqErr("add", first.lp, 1, bias, rec, first.rng, ctx1, <<>>)
    ELSE IF bias.some /\ fail = "second"
    THEN AfterSecond(SamplerErr(first.rng), first, bias, rec, ctx1, RepeatContext(tk, n))
    ELSE AfterSecond(SecondResponse(bias, vec, first, mode, RepeatContext(tk, n), rl, use_async_pool),
                     first, bias, rec, ctx1,
                     IF bias.some THEN RepeatContext(tk, n) ELSE <<>>)

AfterFirst(first, vec, rec, tk, n, mode, rl, use_async_pool, fail, ctx1) ==
    IF ~first.ok
    THEN SeqErr("first", NoLogprobs, 1, NoQuery, rec, first.rng, ctx1, <<>>)
    ELSE AfterBias(BiasIfNotAllowed(rec, first.lp.token), first, vec, rec, tk, n, mode, rl,
                   use_async_pool, fail, ctx1)

AfterReduce(red, ctx1, tk, rec, mode, rl, n, r, use_async_pool, fail) ==
    AfterFirst(FirstResponse(red, ctx1, mode, rl, r, use_async_pool, fail),
               red.vec, rec, tk, n, mode, rl, use_async_pool, fail, ctx1)

\* One constrained decode step over one chunk of logits. The result records
\* the Ok/Err outcome, the Logprobs returned, and what the step did on the way.
sample_sequence(chunk, tk, rec, mode, rl, n, r, use_async_pool, fail) ==
    [chunk |-> chunk] @@
    (IF fail = "squeeze"
     THEN SeqErr("squeeze", NoLogprobs, 0, NoQuery, rec, r, <<>>, <<>>)
     ELSE AfterReduce(ReduceLogits(chunk), RepeatContext(tk, n), tk, rec, mode, rl, n, r,
                      use_async_pool, fail))

----------------------------------------------------------------------------
(* sample_target_sequence_speculative *)

\* Tensor::chunk(chunks, dim) over the position axis: with fewer positions than
\* chunks one chunk per position; otherwise `chunks` chunks, the first
\* size % chunks of them one position longer. chunks = 0 divides by zero.
ChunkSize(size, chunks, i) ==
    (size \div chunks) + (IF i < size % chunks THEN 1 ELSE 0)

RECURSIVE ChunkFrom(_, _, _, _)
ChunkFrom(positions, chunks, i, start) ==
    IF i >= chunks THEN <<>>
    ELSE <<SubSeq(positions, start + 1, start + ChunkSize(Len(positions), chunks, i))>>
         \o ChunkFrom(positions, chunks, i + 1, start + ChunkSize(Len(positions), chunks, i))

Chunk(positions, chunks) ==
    IF chunks = 0 THEN [panic |-> TRUE, chunks |-> <<>>]
    ELSE IF Len(positions) < chunks
         THEN [panic |-> FALSE, chunks |-> [i \in 1 .. Len(positions) |-> <<positions[i]>>]]
         ELSE [panic |-> FALSE, chunks |-> ChunkFrom(positions, chunks, 0, 0)]

NextChunkState_Stale(st, o) == [rec |-> st.rec, rng |-> o.rng]

\* The recognizer and generator state the next chunk starts from.
NextChunkState(st, o) == [rec |-> o.recognizer, rng |-> o.rng]

\* for chunk in chunks { sampled.push(sample_sequence(chunk, seq, .., true).await?) }
RECURSIVE SpeculativeLoop(_, _, _, _)
RECURSIVE SpeculativePush(_, _, _, _, _)
SpeculativePush_KeepsSampled(o, chunks, i, env, st) ==
    IF ~o.ok
    THEN [ok |-> FALSE, rec |-> o.recognizer, rng |-> o.rng,
          sampled |-> st.sampled, outs |-> Append(st.outs, o)]
    ELSE SpeculativeLoop(chunks, i + 1, env,
            [ok |-> TRUE] @@ NextChunkState(st, o)
               @@ [sampled |-> Append(st.sampled, o.lp), outs |-> Append(st.outs, o)])

SpeculativePush(o, chunks, i, env, st) ==
    IF ~o.ok
    THEN [ok |-> FALSE, rec |-> o.recognizer, rng |-> o.rng,
          sampled |-> <<>>, outs |-> Append(st.outs, o)]
    ELSE SpeculativeLoop(chunks, i + 1, env,
            [ok |-> TRUE] @@ NextChunkState(st, o)
               @@ [sampled |-> Append(st.sampled, o.lp), outs |-> Append(st.outs, o)])

SpeculativeLoop(chunks, i, env, st) ==
    IF i > Len(chunks) THEN st
    ELSE SpeculativePush(
            sample_sequence(chunks[i], env.toks, st.rec, env.mode, env.rl, env.n,
                            st.rng, TRUE, IF env.failAt = i THEN env.fail ELSE "none"),
            chunks, i, env, st)

SpeculativeStart(ch, env, st0) ==
    IF ch.panic
    THEN [panic |-> TRUE] @@ [st0 EXCEPT !.ok = FALSE]
    ELSE [panic |-> FALSE] @@ SpeculativeLoop(ch.chunks, 1, env, st0)

sample_target_sequence_speculative(positions, tk, rec, mode, rl, n, r, n_toks, failAt, fail) ==
    SpeculativeStart(
        Chunk(positions, n_toks),
        [toks |-> tk, mode |-> mode, rl |-> rl, n |-> n, failAt |-> failAt, fail |-> fail],
        [ok |-> TRUE, rec |-> rec, rng |-> r, sampled |-> <<>>, outs |-> <<>>])

----------------------------------------------------------------------------
(* The loaders and the pipelines (gemma.rs, llama.rs) *)

Archs == {"gemma", "llama"}

ModelKinds == {"Normal", "XLoraNormal", "LoraNormal", "QuantizedGGUF", "QuantizedGGML",
               "XLoraGGUF", "XLoraGGML", "LoraGGUF", "LoraGGML"}

\* The kinds the Gemma and Llama loaders construct a model for.
SupportedKinds == {"Normal", "XLoraNormal", "LoraNormal"}

LoadFails == {"none", "config", "weights", "tokenizer"}

NoneIdx == [some |-> FALSE, idx |-> 0]
SomeIdx(i) == [some |-> TRUE, idx |-> i]

PipeInit ==
    [status |-> "none", arch |-> "gemma", kind |-> "Normal", model |-> "Normal",
     is_lora |-> FALSE, no_kv_cache |-> FALSE,
     non_granular_state |-> NoneIdx, built_is_xlora |-> FALSE]

SetupVariant_QuantizedAsNormal(kind) ==
    CASE kind = "XLoraNormal" -> [panic |-> FALSE, model |-> "XLoraNormal", is_lora |-> FALSE]
      [] kind = "LoraNormal"  -> [panic |-> FALSE, model |-> "XLoraNormal", is_lora |-> TRUE]
      [] OTHER                -> [panic |-> FALSE, model |-> "Normal", is_lora |-> FALSE]

\* match self.kind { .. }: the model variant and the is_lora flag of a kind;
\* the quantized kinds are unreachable!() / todo!().
SetupVariant(kind) ==
    CASE kind = "Normal"      -> [panic |-> FALSE, model |-> "Normal", is_lora |-> FALSE]
      [] kind = "XLoraNormal" -> [panic |-> FALSE, model |-> "XLoraNormal", is_lora |-> FALSE]
      [] kind = "LoraNormal"  -> [panic |-> FALSE, model |-> "XLoraNormal", is_lora |-> TRUE]
      [] OTHER                -> [panic |-> TRUE, model |-> "Normal", is_lora |-> FALSE]

is_xlora_IgnoresLora(p) == p.model = "XLoraNormal"

\* Pipeline::is_xlora
is_xlora(p) ==
    CASE p.model = "Normal"      -> FALSE
      [] p.model = "XLoraNormal" -> ~p.is_lora

\* Pipeline::has_no_kv_cache
has_no_kv_cache(p) == p.no_kv_cache

\* Pipeline::get_non_granular_state
get_non_granular_state(p) == p.non_granular_state

\* self.tgt_non_granular_index.map(|tgt| NonGranularState { index: 0, tgt })
NewNonGranularState(tgt) == IF tgt.some THEN SomeIdx(tgt.idx) ELSE NoneIdx

\* Loader::_setup_model: the Pipeline built, or how the construction ended.
setup_model(arch, kind, no_kv_cache, tgt, fail) ==
    LET v == SetupVariant(kind)
        p == [status |-> "built", arch |-> arch, kind |-> kind, model |-> v.model,
              is_lora |-> v.is_lora, no_kv_cache |-> no_kv_cache,
              non_granular_state |-> NewNonGranularState(tgt), built_is_xlora |-> FALSE]
    IN IF fail = "config" THEN [PipeInit EXCEPT !.status = "error", !.arch = arch, !.kind = kind]
       ELSE IF v.panic THEN [PipeInit EXCEPT !.status = "panic", !.arch = arch, !.kind = kind]
       ELSE IF fail # "none" THEN [PipeInit EXCEPT !.status = "error", !.arch = arch, !.kind = kind]
       ELSE [p EXCEPT !.built_is_xlora = is_xlora(p)]

\* The token history of a fresh scheduled sequence, and the token the
\* scheduler appends to a history after a decode step.
Prompt == <<0>>
NextToken(h) == Len(h) % VocabSize

\* calculate_inputs(input_seqs, is_prompt, is_xlora, device, no_kv_cache):
\* the full history of every sequence in prompt mode or without KV cache, the
\* newest token otherwise; the "full" inputs only for X-LoRA.
calculate_inputs(hs, is_prompt, xlora, no_kv_cache) ==
    LET whole == is_prompt \/ no_kv_cache
    IN [input_ids |-> [i \in DOMAIN hs |-> IF whole THEN hs[i] ELSE <<hs[i][Len(hs[i])]>>],
        seqlen_offsets |-> [i \in DOMAIN hs |-> IF whole THEN 0 ELSE Len(hs[i]) - 1],
        full |-> xlora,
        input_ids_full |-> IF xlora THEN hs ELSE <<>>,
        seqlen_offsets_full |-> IF xlora THEN [i \in DOMAIN hs |-> 0] ELSE <<>>]

ForwardInputs_IgnoresNoKvCache(p, hs, is_prompt) ==
    calculate_inputs(hs, is_prompt, is_xlora(p), FALSE)

\* forward: calculate_inputs(input_toks, is_prompt, self.is_xlora(), self.device(),
\*                           self.no_kv_cache)
ForwardInputs(p, hs, is_prompt) == calculate_inputs(hs, is_prompt, is_xlora(p), p.no_kv_cache)

NoModelCall ==
    [ran |-> FALSE, variant |-> "none", input_ids |-> <<>>, seqlen_offsets |-> <<>>,
     input_ids_full |-> <<>>, seqlen_offsets_full |-> <<>>, substituted |-> FALSE,
     no_kv_cache |-> FALSE, non_granular_state |-> NoneIdx]

\* Model::Normal(ref mut model) => model.forward(&input_ids, &seqlen_offsets, ..)
NormalCall(p, inputs) ==
    [ran |-> TRUE, variant |-> "Normal",
     input_ids |-> inputs.input_ids, seqlen_offsets |-> inputs.seqlen_offsets,
     input_ids_full |-> <<>>, seqlen_offsets_full |-> <<>>, substituted |-> FALSE,
     no_kv_cache |-> FALSE, non_granular_state |-> NoneIdx]

XLoraCall_RequireFull(p, inputs) ==
    [ran |-> inputs.full, variant |-> "XLoraNormal",
     input_ids |-> inputs.input_ids, seqlen_offsets |-> inputs.seqlen_offsets,
     input_ids_full |-> inputs.input_ids_full,
     seqlen_offsets_full |-> inputs.seqlen_offsets_full,
     substituted |-> FALSE,
     no_kv_cache |-> p.no_kv_cache, non_granular_state |-> p.non_granular_state]

XLoraCall_DropsState(p, inputs) ==
    [ran |-> TRUE, variant |-> "XLoraNormal",
     input_ids |-> inputs.input_ids, seqlen_offsets |-> inputs.seqlen_offsets,
     input_ids_full |-> IF inputs.full THEN inputs.input_ids_full ELSE inputs.input_ids,
     seqlen_offsets_full |-> IF inputs.full THEN inputs.seqlen_offsets_full
                             ELSE inputs.seqlen_offsets,
     substituted |-> ~inputs.full,
     no_kv_cache |-> p.no_kv_cache, non_granular_state |-> NoneIdx]

\* Model::XLoraNormal(ref mut model) => model.forward(&input_ids,
\*     input_ids_full.as_ref().unwrap_or(&input_ids), .., &self.non_granular_state, ..)
XLoraCall(p, inputs) ==
    [ran |-> TRUE, variant |-> "XLoraNormal",
     input_ids |-> inputs.input_ids, seqlen_offsets |-> inputs.seqlen_offsets,
     input_ids_full |-> IF inputs.full THEN inputs.input_ids_full ELSE inputs.input_ids,
     seqlen_offsets_full |-> IF inputs.full THEN inputs.seqlen_offsets_full
                             ELSE inputs.seqlen_offsets,
     substituted |-> ~inputs.full,
     no_kv_cache |-> p.no_kv_cache, non_granular_state |-> p.non_granular_state]

\* match self.model { Normal => .., XLoraNormal => .. }
ModelCall(p, inputs) ==
    CASE p.model = "Normal"      -> NormalCall(p, inputs)
      [] p.model = "XLoraNormal" -> XLoraCall(p, inputs)

\* By how much a model forward advances the shared non-granular counter: the
\* X-LoRA model advances it once per call it completes when it was handed a
\* NonGranularState; a call that fails may or may not have advanced it, and so
\* may a model reduced to LoRA; a model handed no state advances nothing.
ModelAdvances(p, call, modelOk) ==
    IF ~call.ran \/ ~call.non_granular_state.some THEN {0}
    ELSE IF modelOk /\ ~p.is_lora THEN {1}
    ELSE {0, 1}

FwdInit ==
    [calls |-> 0, reached |-> 0, completed |-> 0,
     seqs |-> [i \in 1 .. PoolSize |-> Prompt],
     batch |-> {}, hs |-> <<>>, is_prompt |-> FALSE, result |-> "none", full_missing |-> FALSE,
     call |-> NoModelCall, seen_is_xlora |-> "unseen"]

\* The batches the scheduler forms: the first n sequences of the pool.
Batches == {1 .. n : n \in 1 .. PoolSize}

\* The histories of the sequences of a batch, in batch order.
RECURSIVE BatchSeqs(_, _)
BatchSeqs(seqs, batch) ==
    IF batch = {} THEN <<>>
    ELSE LET i == CHOOSE x \in batch : \A y \in batch : x <= y
         IN <<seqs[i]>> \o BatchSeqs(seqs, batch \ {i})

----------------------------------------------------------------------------
(* The decode steps of one Sequence, as one caller drives them *)

StartRecognizer(kind) == [kind |-> kind, st |-> IF kind = "None" THEN "none" ELSE "start"]

NoCall ==
    [op |-> "none", positions |-> <<>>, n_toks |-> 0, draft |-> <<>>,
     use_async_pool |-> FALSE, fail |-> "none", failAt |-> 0,
     toksBefore |-> <<>>, recBefore |-> StartRecognizer("None"), rngBefore |-> 0,
     ok |-> FALSE, panic |-> FALSE, sampled |-> <<>>, outs |-> <<>>]

InitSampling ==
    /\ toks = <<0>>
    /\ recognizer \in {StartRecognizer(k) : k \in RecKinds}
    /\ sampler \in SamplerModes
    /\ rng \in 0 .. (RngStates - 1)
    /\ repeat_last_n \in {0, MaxRepeat}
    /\ return_logprobs \in BOOLEAN
    /\ advances = 0
    /\ accepted = 0
    /\ calls = 0
    /\ errors = 0
    /\ pc = "idle"
    /\ last = NoCall
    /\ pipe = PipeInit
    /\ ngIndex = 0
    /\ fwd = FwdInit
    /\ pipelines = <<>>
    /\ counters = <<>>
    /\ mutexes = <<>>
    /\ threads = <<>>
    /\ caches = <<>>

\* A plain decode step: the caller hands sample_sequence the logits of one position.
SampleSequence ==
    /\ pc = "idle"
    /\ calls < MaxCalls
    /\ Len(toks) < MaxToks
    /\ \E logits \in LogitsInputs, use_async_pool \in BOOLEAN, fail \in FailPoints :
         LET o == sample_sequence(<<logits>>, toks, recognizer, sampler, return_logprobs,
                                  repeat_last_n, rng, use_async_pool, fail)
         IN /\ recognizer' = o.recognizer
            /\ rng' = o.rng
            /\ advances' = advances + o.advanced
            /\ last' = [op |-> "sample", positions |-> <<logits>>, n_toks |-> 1, draft |-> <<>>,
                        use_async_pool |-> use_async_pool, fail |-> fail, failAt |-> 1,
                        toksBefore |-> toks, recBefore |-> recognizer, rngBefore |-> rng,
                        ok |-> o.ok, panic |-> FALSE,
                        sampled |-> IF o.ok THEN <<o.lp>> ELSE <<>>, outs |-> <<o>>]
    /\ pc' = "sampled"
    /\ calls' = calls + 1
    /\ errors' = errors + (IF last'.ok THEN 0 ELSE 1)
    /\ UNCHANGED <<toks, sampler, repeat_last_n, return_logprobs, accepted, pipelineVars>>
    /\ UNCHANGED <<loaderVars, serverVars>>

\* The caller appends the token a successful decode step returned.
CallerAppend ==
    /\ pc = "sampled"
    /\ pc' = "idle"
    /\ IF last.ok
       THEN /\ toks' = Append(toks, last.sampled[1].token)
            /\ accepted' = accepted + 1
       ELSE UNCHANGED <<toks, accepted>>
    /\ last' = NoCall
    /\ UNCHANGED <<recognizer, sampler, rng, repeat_last_n, return_logprobs, advances, calls,
                   errors, pipelineVars>>
    /\ UNCHANGED <<loaderVars, serverVars>>

\* The append_token calls a series of decode steps made.
RECURSIVE SumAdvanced(_)
SumAdvanced(outs) ==
    IF outs = <<>> THEN 0 ELSE outs[1].advanced + SumAdvanced(Tail(outs))

\* The draft tokens a speculative call verifies.
DraftToks == {0, 2}
Drafts(N) == {[i \in 1 .. N |-> d] : d \in DraftToks}

\* A speculative decode call over a logits tensor of N positions.
SampleTargetSequenceSpeculative ==
    /\ pc = "idle"
    /\ calls < MaxCalls
    /\ \E N \in 1 .. MaxSpec :
         /\ Len(toks) + N <= MaxToks
         /\ \E positions \in [1 .. N -> LogitsInputs], draft \in Drafts(N),
               n_toks \in 0 .. (N + 1), failAt \in 0 .. N, fail \in {"none", "first"} :
              /\ (failAt = 0) <=> (fail = "none")
              /\ LET r == sample_target_sequence_speculative(positions, toks, recognizer, sampler,
                              return_logprobs, repeat_last_n, rng, n_toks, failAt, fail)
                 IN /\ recognizer' = r.rec
                    /\ rng' = r.rng
                    /\ advances' = advances + SumAdvanced(r.outs)
                    /\ last' = [op |-> "speculative", positions |-> positions, n_toks |-> n_toks,
                                draft |-> draft, use_async_pool |-> TRUE,
                                fail |-> fail, failAt |-> failAt,
                                toksBefore |-> toks, recBefore |-> recognizer, rngBefore |-> rng,
                                ok |-> r.ok, panic |-> r.panic,
                                sampled |-> r.sampled, outs |-> r.outs]
    /\ pc' = "speculated"
    /\ calls' = calls + 1
    /\ errors' = errors + (IF last'.ok THEN 0 ELSE 1)
    /\ UNCHANGED <<toks, sampler, repeat_last_n, return_logprobs, accepted, pipelineVars>>
    /\ UNCHANGED <<loaderVars, serverVars>>

\* The samples the caller keeps: those up to and including the first one that
\* differs from the draft token of its position.
RECURSIVE KeptCount(_, _, _)
KeptCount(sampled, draft, i) ==
    IF i > Len(sampled) THEN Len(sampled)
    ELSE IF sampled[i].token # draft[i] THEN i
    ELSE KeptCount(sampled, draft, i + 1)

RECURSIVE TokensOf(_)
TokensOf(sampled) ==
    IF sampled = <<>> THEN <<>> ELSE <<sampled[1].token>> \o TokensOf(Tail(sampled))

\* The caller compares the samples with the draft and appends the kept ones.
CallerAcceptSpeculative ==
    /\ pc = "speculated"
    /\ pc' = "idle"
    /\ LET k == KeptCount(last.sampled, last.draft, 1)
       IN /\ toks' = toks \o TokensOf(SubSeq(last.sampled, 1, k))
          /\ accepted' = accepted + k
    /\ last' = NoCall
    /\ UNCHANGED <<recognizer, sampler, rng, repeat_last_n, return_logprobs, advances, calls,
                   errors, pipelineVars>>
    /\ UNCHANGED <<loaderVars, serverVars>>

NextSampling ==
    \/ SampleSequence
    \/ CallerAppend
    \/ SampleTargetSequenceSpeculative
    \/ CallerAcceptSpeculative

SpecSampling == InitSampling /\ [][NextSampling]_vars

----------------------------------------------------------------------------
(* One loader and the Pipeline it constructs, as the scheduler drives it *)

InitPipeline ==
    /\ toks = <<0>>
    /\ recognizer = StartRecognizer("None")
    /\ sampler = "argmax"
    /\ rng = 0
    /\ repeat_last_n = 0
    /\ return_logprobs = FALSE
    /\ advances = 0
    /\ accepted = 0
    /\ calls = 0
    /\ errors = 0
    /\ pc = "idle"
    /\ last = NoCall
    /\ pipe = PipeInit
    /\ ngIndex = 0
    /\ fwd = FwdInit
    /\ pipelines = <<>>
    /\ counters = <<>>
    /\ mutexes = <<>>
    /\ threads = <<>>
    /\ caches = <<>>

\* Loader::_setup_model for a loader built with the given kind and options.
SetupModel ==
    /\ pipe.status = "none"
    /\ \E arch \in Archs, kind \in ModelKinds, no_kv_cache \in BOOLEAN,
          tgt \in {NoneIdx, SomeIdx(TgtIndex)}, fail \in LoadFails :
         pipe' = setup_model(arch, kind, no_kv_cache, tgt, fail)
    /\ ngIndex' = 0
    /\ UNCHANGED <<fwd, samplingVars>>
    /\ UNCHANGED <<loaderVars, serverVars>>

\* Pipeline::forward over a batch of the scheduled sequences.
Forward ==
    /\ pipe.status = "built"
    /\ fwd.calls < MaxForward
    /\ \E batch \in Batches, is_prompt \in BOOLEAN,
          inputsOk \in BOOLEAN, modelOk \in BOOLEAN :
         LET inputs == ForwardInputs(pipe, BatchSeqs(fwd.seqs, batch), is_prompt)
             call == IF inputsOk THEN ModelCall(pipe, inputs) ELSE NoModelCall
         IN \E adv \in ModelAdvances(pipe, call, modelOk) :
              /\ inputsOk \/ modelOk
              /\ ngIndex' = ngIndex + adv
              /\ fwd' = [fwd EXCEPT !.calls = @ + 1,
                                    !.reached = @ + (IF inputsOk THEN 1 ELSE 0),
                                    !.completed = @ + (IF inputsOk /\ modelOk THEN 1 ELSE 0),
                                    !.batch = batch, !.is_prompt = is_prompt,
                                    !.hs = BatchSeqs(fwd.seqs, batch),
                                    !.result = IF ~inputsOk THEN "panic"
                                               ELSE IF modelOk THEN "ok" ELSE "err",
                                    !.full_missing = inputsOk /\ ~inputs.full,
                                    !.call = call]
              /\ pipe' = IF inputsOk THEN pipe ELSE [pipe EXCEPT !.status = "aborted"]
    /\ UNCHANGED samplingVars
    /\ UNCHANGED <<loaderVars, serverVars>>

\* The scheduler appends the decoded token to a sequence.
AppendToken ==
    /\ pipe.status = "built"
    /\ \E i \in 1 .. PoolSize :
         /\ Len(fwd.seqs[i]) < MaxHist
         /\ fwd' = [fwd EXCEPT !.seqs[i] = Append(@, NextToken(@))]
    /\ UNCHANGED <<pipe, ngIndex, samplingVars>>
    /\ UNCHANGED <<loaderVars, serverVars>>

\* The scheduler reads is_xlora().
ReadIsXlora ==
    /\ pipe.status = "built"
    /\ fwd' = [fwd EXCEPT !.seen_is_xlora = IF is_xlora(pipe) THEN "true" ELSE "false"]
    /\ UNCHANGED <<pipe, ngIndex, samplingVars>>
    /\ UNCHANGED <<loaderVars, serverVars>>

NextPipeline ==
    \/ SetupModel
    \/ Forward
    \/ AppendToken
    \/ ReadIsXlora

SpecPipeline == InitPipeline /\ [][NextPipeline]_vars

----------------------------------------------------------------------------
(* The loaders, called several times: each call builds its own Pipeline *)

\* The tokenizers a loader reads: whether encode("<|eot_id|>", true) is Ok.
Tokenizers == {[encodes_eot |-> b] : b \in BOOLEAN}

\* chat_template.eos_tok()
TemplateEos == "</s>"

EotMarker == "<|eot_id|>"

\* The id the tokenizer's vocabulary gives a token string.
TokenId(name) ==
    IF \E t \in Vocab : TokenStr(t) = name
    THEN CHOOSE t \in Vocab : TokenStr(t) = name
    ELSE VocabSize + 1

\* calculate_eos_tok(eos_toks, &tokenizer): the ids of the token strings, in order
calculate_eos_tok(eos_toks) == [i \in DOMAIN eos_toks |-> TokenId(eos_toks[i])]

LlamaEosToks_AlwaysMarker(tokenizer) == <<TemplateEos, EotMarker>>

\* llama.rs: let mut eos_toks = vec![chat_template.eos_tok()];
\*           if tokenizer.encode("<|eot_id|>", true).is_ok() { eos_toks.push("<|eot_id|>") }
LlamaEosToks(tokenizer) ==
    IF tokenizer.encodes_eot THEN <<TemplateEos, EotMarker>> ELSE <<TemplateEos>>

\* gemma.rs: vec![chat_template.eos_tok()]
GemmaEosToks(tokenizer) == <<TemplateEos>>

\* The eos_tok field of the Pipeline a loader builds.
setup_eos_tok(arch, tokenizer) ==
    calculate_eos_tok(IF arch = "llama" THEN LlamaEosToks(tokenizer) ELSE GemmaEosToks(tokenizer))

AllocNonGranularIndex_Shared(cells, tgt) ==
    IF tgt.some
    THEN [cells |-> IF cells = <<>> THEN <<0>> ELSE cells, ref |-> 1]
    ELSE [cells |-> cells, ref |-> 0]

\* self.tgt_non_granular_index.map(|tgt| NonGranularState {
\*     non_granular_index: Arc::new(Mutex::new(0)), tgt_non_granular_index: tgt }):
\* a new cell holding 0 when a target index was given, no cell otherwise.
AllocNonGranularIndex(cells, tgt) ==
    IF tgt.some
    THEN [cells |-> Append(cells, 0), ref |-> Len(cells) + 1]
    ELSE [cells |-> cells, ref |-> 0]

\* What a _setup_model call leaves: the Pipeline (or the failure), its eos_tok,
\* the cell of its non_granular_index, and what the loader had been given.
BuiltEntry(p, arch, tgt, tokenizer, ref) ==
    IF p.status = "built"
    THEN [pipe |-> p, eos_tok |-> setup_eos_tok(arch, tokenizer), cell |-> ref,
          tgt |-> tgt, encodes_eot |-> tokenizer.encodes_eot, forwards |-> 0, advanced |-> 0]
    ELSE [pipe |-> [PipeInit EXCEPT !.status = p.status], eos_tok |-> <<>>, cell |-> 0,
          tgt |-> NoneIdx, encodes_eot |-> FALSE, forwards |-> 0, advanced |-> 0]

RECURSIVE TotalForwards(_)
TotalForwards(ps) == IF ps = <<>> THEN 0 ELSE ps[1].forwards + TotalForwards(Tail(ps))

InitLoader ==
    /\ toks = <<0>>
    /\ recognizer = StartRecognizer("None")
    /\ sampler = "argmax"
    /\ rng = 0
    /\ repeat_last_n = 0
    /\ return_logprobs = FALSE
    /\ advances = 0
    /\ accepted = 0
    /\ calls = 0
    /\ errors = 0
    /\ pc = "idle"
    /\ last = NoCall
    /\ pipe = PipeInit
    /\ ngIndex = 0
    /\ fwd = FwdInit
    /\ pipelines = <<>>
    /\ counters = <<>>
    /\ mutexes = <<>>
    /\ threads = <<>>
    /\ caches = <<>>

\* One more _setup_model call, on the Gemma or the Llama loader.
BuildPipeline ==
    /\ Len(pipelines) < MaxPipelines
    /\ \E arch \in Archs, kind \in ModelKinds, tgt \in {NoneIdx, SomeIdx(TgtIndex)},
          tokenizer \in Tokenizers, fail \in LoadFails :
         LET p == setup_model(arch, kind, FALSE, tgt, fail)
             a == IF p.status = "built" THEN AllocNonGranularIndex(counters, tgt)
                  ELSE [cells |-> counters, ref |-> 0]
         IN /\ pipelines' = Append(pipelines, BuiltEntry(p, arch, tgt, tokenizer, a.ref))
            /\ counters' = a.cells
    /\ UNCHANGED <<samplingVars, pipelineVars, serverVars>>

\* A successful forward call on one of the Pipelines built.
ForwardBuilt ==
    /\ TotalForwards(pipelines) < MaxSteps
    /\ \E i \in DOMAIN pipelines :
         /\ pipelines[i].pipe.status = "built"
         /\ LET p == pipelines[i].pipe
                call == ModelCall(p, ForwardInputs(p, <<Prompt>>, TRUE))
            IN \E adv \in ModelAdvances(p, call, TRUE) :
                 /\ pipelines' = [pipelines EXCEPT ![i].forwards = @ + 1,
                                                    ![i].advanced = @ + adv]
                 /\ counters' = IF call.non_granular_state.some
                                THEN [counters EXCEPT ![pipelines[i].cell] = @ + adv]
                                ELSE counters
    /\ UNCHANGED <<samplingVars, pipelineVars, serverVars>>

NextLoader ==
    \/ BuildPipeline
    \/ ForwardBuilt

SpecLoader == InitLoader /\ [][NextLoader]_vars

----------------------------------------------------------------------------
(* Scheduler threads sharing the Pipelines of two loaded models *)

Threads == 1 .. NumThreads

PipelineHandle_Unguarded(entry) == [guarded |-> FALSE, pipeline |-> entry.pipe]

\* _setup_model returns Ok(Box::new(Mutex::new(Pipeline { .. }))): the
\* Pipeline is reachable only through the Mutex.
PipelineHandle(entry) == [guarded |-> TRUE, pipeline |-> entry.pipe]

\* Mutex::lock: a guarded Pipeline is entered only while no thread holds its Mutex.
CanLock(i) == PipelineHandle(pipelines[i]).guarded => mutexes[i] = 0

IdleThread == [pc |-> "idle", p |-> 0]

InitServer ==
    /\ toks = <<0>>
    /\ recognizer = StartRecognizer("None")
    /\ sampler = "argmax"
    /\ rng = 0
    /\ repeat_last_n = 0
    /\ return_logprobs = FALSE
    /\ advances = 0
    /\ accepted = 0
    /\ calls = 0
    /\ errors = 0
    /\ pc = "idle"
    /\ last = NoCall
    /\ pipe = PipeInit
    /\ ngIndex = 0
    /\ fwd = FwdInit
    /\ counters = <<>>
    /\ \E kind \in SupportedKinds, no_kv_cache \in BOOLEAN :
         pipelines =
            <<BuiltEntry(setup_model("gemma", kind, no_kv_cache, NoneIdx, "none"),
                         "gemma", NoneIdx, [encodes_eot |-> TRUE], 0),
              BuiltEntry(setup_model("llama", kind, no_kv_cache, NoneIdx, "none"),
                         "llama", NoneIdx, [encodes_eot |-> TRUE], 0)>>
    /\ mutexes = <<0, 0>>
    /\ threads = [t \in Threads |-> IdleThread]
    /\ caches = <<[len |-> 0, writer |-> 0], [len |-> 0, writer |-> 0]>>

\* A thread locks the Mutex of a Pipeline.
Lock(t) ==
    /\ threads[t].pc = "idle"
    /\ \E i \in DOMAIN pipelines :
         /\ CanLock(i)
         /\ mutexes' = [mutexes EXCEPT ![i] = t]
         /\ threads' = [threads EXCEPT ![t] = [pc |-> "locked", p |-> i]]
    /\ UNCHANGED <<caches, samplingVars, pipelineVars, loaderVars>>

\* forward(&mut self, ..) starts: it works on the KV cache of its model.
BeginForward(t) ==
    /\ threads[t].pc = "locked"
    /\ caches[threads[t].p].len < MaxCache
    /\ threads' = [threads EXCEPT ![t].pc = "forward"]
    /\ caches' = [caches EXCEPT ![threads[t].p].writer = t]
    /\ UNCHANGED <<mutexes, samplingVars, pipelineVars, loaderVars>>

\* forward returns: the KV cache holds one more position.
EndForward(t) ==
    /\ threads[t].pc = "forward"
    /\ threads' = [threads EXCEPT ![t].pc = "locked"]
    /\ caches' = [caches EXCEPT ![threads[t].p] = [len |-> @.len + 1, writer |-> 0]]
    /\ UNCHANGED <<mutexes, samplingVars, pipelineVars, loaderVars>>

\* An accessor (&self) starts: cache(), is_xlora(), eos_tok(), ..
BeginAccessor(t) ==
    /\ threads[t].pc = "locked"
    /\ threads' = [threads EXCEPT ![t].pc = "accessor"]
    /\ UNCHANGED <<mutexes, caches, samplingVars, pipelineVars, loaderVars>>

EndAccessor(t) ==
    /\ threads[t].pc = "accessor"
    /\ threads' = [threads EXCEPT ![t].pc = "locked"]
    /\ UNCHANGED <<mutexes, caches, samplingVars, pipelineVars, loaderVars>>

\* The MutexGuard is dropped.
Unlock(t) ==
    /\ threads[t].pc = "locked"
    /\ mutexes' = [mutexes EXCEPT ![threads[t].p] = 0]
    /\ threads' = [threads EXCEPT ![t] = IdleThread]
    /\ UNCHANGED <<caches, samplingVars, pipelineVars, loaderVars>>

NextServer ==
    \/ \E t \in Threads : Lock(t)
    \/ \E t \in Threads : BeginForward(t)
    \/ \E t \in Threads : EndForward(t)
    \/ \E t \in Threads : BeginAccessor(t)
    \/ \E t \in Threads : EndAccessor(t)
    \/ \E t \in Threads : Unlock(t)

SpecServer == InitServer /\ [][NextServer]_vars

----------------------------------------------------------------------------
(* Properties of the decode steps (checked under SpecSampling) *)

\* The outcomes of the decode steps of the call in progress, in chunk order.
Outs == {last.outs[i] : i \in 1 .. Len(last.outs)}

Constrained(rec) == rec.kind \in {"Regex", "Cfg"}

\* The recognizer state after advancing rec by the tokens of sampled[1..k].
RECURSIVE AdvancedBy(_, _, _)
AdvancedBy(rec, sampled, k) ==
    IF k = 0 THEN rec
    ELSE AdvanceRecognizer(AdvancedBy(rec, sampled, k - 1), sampled[k].token).rec

\* C1: for a sequence whose Recognizer is Regex or Cfg, the token a decode
\* step returns is grammar-valid in the Recognizer state held before the step,
\* for every logits vector and every tentative sample.
C1_ReturnedTokenValid ==
    \A o \in Outs :
        (o.ok /\ Constrained(o.recBefore)) => token_allowed(o.recBefore, o.lp.token)

\* C2 as stated: a speculative call over N positions returns exactly N Logprobs
\* and advances the Recognizer N times in position order, for every n_toks
\* (sampling failures of a chunk set aside).
C2_AnyNToks ==
    (last.op = "speculative" /\ last.fail = "none"
        /\ \A o \in Outs : ~(o.biasSome /\ o.biasSet = {}))
    => (last.ok /\ Len(last.sampled) = Len(last.positions))

\* C2 as amended: when n_toks is at least the number N of positions and no
\* chunk's step fails, the call returns exactly N Logprobs in chunk order, the
\* i-th chunk being the i-th position, validated against the Recognizer state
\* left by the chunks before it, and the Recognizer ends advanced by the N
\* returned tokens in order; when 0 < n_toks < N the call returns an error and
\* no Logprobs, and n_toks = 0 aborts the call.
C2_ChunksInOrder ==
    last.op = "speculative" =>
        LET N == Len(last.positions) IN
        /\ (last.n_toks = 0) <=> last.panic
        /\ (last.n_toks >= N /\ last.ok) =>
              /\ Len(last.sampled) = N
              /\ Len(last.outs) = N
              /\ \A i \in 1 .. N :
                    /\ last.outs[i].chunk = <<last.positions[i]>>
                    /\ last.outs[i].lp = last.sampled[i]
                    /\ last.outs[i].recBefore = AdvancedBy(last.recBefore, last.sampled, i - 1)
              /\ recognizer = AdvancedBy(last.recBefore, last.sampled, N)
              /\ Constrained(last.recBefore) => SumAdvanced(last.outs) = N
        /\ (0 < last.n_toks /\ last.n_toks < N) => (~last.ok /\ last.sampled = <<>>)

C2_Witness ==
    /\ last.op = "speculative"
    /\ Len(last.positions) = MaxSpec
    /\ last.n_toks > MaxSpec
    /\ last.ok
    /\ last.recBefore.kind = "Regex"
    /\ last.outs[1].recognizer # last.recBefore

\* C3: for a sequence with a non-None Recognizer, after any series of decode
\* steps and speculative calls that all succeeded, the number of Recognizer
\* advances equals the number of tokens accepted into the sequence.
C3_AdvancesEqualAccepted ==
    (pc = "idle" /\ errors = 0 /\ Constrained(recognizer)) => advances = accepted

\* C4: the bias-and-resample path runs iff the Recognizer is non-None and the
\* tentative token is grammar-invalid; otherwise the Sampler is invoked exactly
\* once and the returned Logprobs is the tentative result, unchanged.
C4_ResampleIffInvalid ==
    \A o \in Outs :
        (o.stage \notin {"squeeze", "first"}) =>
            /\ o.biasSome <=> (Constrained(o.recBefore)
                                 /\ ~token_allowed(o.recBefore, o.first.token))
            /\ o.resampled => o.biasSome
            /\ (o.biasSome /\ o.stage # "add") => (o.resampled /\ o.samplerCalls = 2)
            /\ ~o.biasSome => (o.ok /\ o.samplerCalls = 1 /\ o.lp = o.first)

C4_Witness ==
    /\ last.op = "speculative"
    /\ last.ok
    /\ Len(last.outs) = MaxSpec
    /\ last.outs[1].resampled
    /\ ~last.outs[MaxSpec].resampled
    /\ Constrained(last.outs[MaxSpec].recBefore)

\* C5: with a None Recognizer a decode step never queries the vocabulary trie,
\* never builds a bias, never advances a grammar state and returns the
\* Sampler's first result unchanged, in every chunk of a speculative call too.
C5_NoneUnconstrained ==
    /\ recognizer.kind = "None" => (advances = 0 /\ recognizer = StartRecognizer("None"))
    /\ \A o \in Outs :
          o.recBefore.kind = "None" =>
              /\ ~o.queried /\ ~o.biasSome /\ o.acc = NoBias
              /\ o.advanced = 0 /\ o.recognizer = o.recBefore
              /\ o.samplerCalls <= 1
              /\ o.stage \notin {"squeeze", "first"} => (o.ok /\ o.lp = o.first)

C5_Witness ==
    /\ last.op = "speculative"
    /\ last.recBefore.kind = "None"
    /\ last.ok
    /\ Len(last.sampled) = MaxSpec

\* C6: when the tentative token is invalid and the valid-token set is empty,
\* the bias covers the whole vocabulary with minus infinity and the decode
\* step ends in an error: no token is returned, the Recognizer is not advanced.
C6_TotalRejectionFatal ==
    \A o \in Outs :
        (o.biasSome /\ o.biasSet = {}) =>
            /\ DOMAIN o.acc = Vocab
            /\ \A t \in Vocab : o.acc[t] = "ninf"
            /\ ~o.ok
            /\ o.advanced = 0
            /\ o.recognizer = o.recBefore

----------------------------------------------------------------------------
(* Properties of the pipelines (checked under SpecPipeline) *)

Constructed == pipe.status \in {"built", "aborted"}

\* C7: is_xlora() is true iff the model variant is X-LoRA and is_lora is
\* false: false for kind Normal, true for kind XLoraNormal, false for kind
\* LoraNormal, and the same at every later read as at construction.
C7_IsXlora ==
    Constructed =>
        /\ is_xlora(pipe) <=> (pipe.model = "XLoraNormal" /\ ~pipe.is_lora)
        /\ is_xlora(pipe) <=> (pipe.kind = "XLoraNormal")
        /\ is_xlora(pipe) = pipe.built_is_xlora
        /\ fwd.seen_is_xlora # "unseen" => ((fwd.seen_is_xlora = "true") <=> pipe.built_is_xlora)
        /\ fwd.call.ran => (fwd.full_missing <=> ~pipe.built_is_xlora)

C7_Witness ==
    /\ pipe.status = "built"
    /\ pipe.kind = "LoraNormal"
    /\ fwd.calls >= 1
    /\ fwd.seen_is_xlora = "false"

C10_NoKvCacheFullHistory ==
    (Constructed /\ pipe.no_kv_cache /\ fwd.call.ran) =>
        /\ fwd.call.input_ids = fwd.hs
        /\ \A i \in DOMAIN fwd.hs : fwd.call.seqlen_offsets[i] = 0

C10_Witness ==
    /\ pipe.status = "built"
    /\ pipe.no_kv_cache
    /\ fwd.reached >= 2
    /\ fwd.call.ran
    /\ ~fwd.is_prompt
    /\ \A i \in DOMAIN fwd.hs : Len(fwd.hs[i]) > 1

----------------------------------------------------------------------------
(* Further properties of the decode steps (checked under SpecSampling) *)

\* The failure injected into the i-th decode step of the call in progress.
StepFail(i) == IF last.failAt = i THEN last.fail ELSE "none"

\* The generator state the i-th decode step of the call in progress started from.
StepRng(i) == IF i = 1 THEN last.rngBefore ELSE last.outs[i - 1].rng

\* The i-th decode step of the call in progress, run again from the same
\* logits, sequence, Recognizer and generator state with the given placement.
StepWithPlacement(i, use_async_pool) ==
    sample_sequence(last.outs[i].chunk, last.toksBefore, last.outs[i].recBefore, sampler,
                    return_logprobs, repeat_last_n, StepRng(i), use_async_pool, StepFail(i))

\* Plain decode steps (calling thread) over the chunks in order, each from the
\* Recognizer and generator state the step before it left, stopping at the
\* first error.
RECURSIVE PlainSteps(_, _, _)
RECURSIVE PlainStepNext(_, _, _, _)
PlainStepNext(o, chunks, i, st) ==
    IF ~o.ok
    THEN [ok |-> FALSE, rec |-> o.recognizer, rng |-> o.rng, sampled |-> <<>>]
    ELSE PlainSteps(chunks, i + 1,
                    [ok |-> TRUE, rec |-> o.recognizer, rng |-> o.rng,
                     sampled |-> Append(st.sampled, o.lp)])

PlainSteps(chunks, i, st) ==
    IF i > Len(chunks) THEN st
    ELSE PlainStepNext(
            sample_sequence(chunks[i], last.toksBefore, st.rec, sampler, return_logprobs,
                            repeat_last_n, st.rng, FALSE, StepFail(i)),
            chunks, i, st)

LastTokens(tk, m) == SubSeq(tk, Len(tk) - m + 1, Len(tk))

\* The repeat window of the sequence as it stood when the call in progress began.
WindowBefore ==
    LastTokens(last.toksBefore,
               IF repeat_last_n < Len(last.toksBefore) THEN repeat_last_n
               ELSE Len(last.toksBefore))

\* C17: a decode call leaves the sequence's token list as it found it (only
\* the caller appends); the repeat window handed to the Sampler is the last
\* min(repeat_last_n, token count) tokens, the same for the tentative and the
\* corrective sample of a step and the same for every chunk of a speculative
\* call.
C17_TokensAndWindowUnchanged ==
    /\ pc # "idle" => toks = last.toksBefore
    /\ \A o \in Outs :
          /\ o.samplerCalls >= 1 => o.ctx1 = WindowBefore
          /\ o.samplerCalls = 2 => o.ctx2 = o.ctx1

C17_Witness ==
    /\ last.op = "speculative"
    /\ last.ok
    /\ Len(last.outs) = MaxSpec
    /\ repeat_last_n = MaxRepeat
    /\ WindowBefore # <<>>
    /\ last.outs[1].samplerCalls = 2
    /\ last.outs[MaxSpec].ctx1 = last.outs[1].ctx2
    /\ last.sampled[1].token \notin SeqToSet(last.toksBefore)

\* The Logprobs the first k decode steps of the call in progress produced.
StepLogprobs(k) == [i \in 1 .. k |-> last.outs[i].lp]

\* C18: a decode step that returns an error (logits reduction, tentative
\* sample, bias addition or corrective sample failing) leaves the Recognizer in
\* the state it had before the step; a speculative call failing at chunk k
\* returns the error alone, none of the k-1 Logprobs sampled before, and
\* leaves the Recognizer advanced by the k-1 tokens of the chunks before it.
C18_FailedStepAdvancesNothing ==
    /\ \A o \in Outs :
          ~o.ok => /\ o.stage \in FailPoints \ {"none"}
                   /\ o.recognizer = o.recBefore
                   /\ o.advanced = 0
                   /\ o.lp = NoLogprobs
    /\ (last.op = "sample" /\ ~last.ok) =>
          (recognizer = last.recBefore /\ last.sampled = <<>>)
    /\ (last.op = "speculative" /\ ~last.ok /\ ~last.panic) =>
          /\ Len(last.outs) >= 1
          /\ ~last.outs[Len(last.outs)].ok
          /\ \A i \in 1 .. (Len(last.outs) - 1) : last.outs[i].ok
          /\ last.sampled = <<>>
          /\ recognizer = AdvancedBy(last.recBefore, StepLogprobs(Len(last.outs) - 1),
                                     Len(last.outs) - 1)
          /\ SumAdvanced(last.outs) =
                IF Constrained(last.recBefore) THEN Len(last.outs) - 1 ELSE 0

C18_Witness ==
    /\ last.op = "speculative"
    /\ ~last.ok /\ ~last.panic
    /\ Len(last.outs) = MaxSpec
    /\ last.recBefore = StartRecognizer("Regex")
    /\ recognizer # last.recBefore
    /\ last.outs[1].resampled
    /\ last.sampled = <<>>

----------------------------------------------------------------------------
(* Further properties of the pipelines (checked under SpecPipeline) *)

\* C12: every failure inside forward, a failure to derive the model inputs
\* from the batch included, reaches the caller as an error result: after any
\* forward call the caller holds logits or an error and the process (and with
\* it the Pipeline) is still there; forward never aborts.
C12_ForwardFailuresTyped ==
    fwd.calls > 0 => (fwd.result \in {"ok", "err"} /\ pipe.status = "built")

\* C13: setting up a model of an unsupported kind (every quantized GGUF/GGML
\* kind, plain or adapter) fails during construction and yields no Pipeline;
\* a constructed Pipeline holds the variant its kind asks for: Normal the
\* Normal variant, XLoraNormal the X-LoRA variant with is_lora false,
\* LoraNormal the X-LoRA variant with is_lora true, for both loaders.
C13_UnsupportedKindsFail ==
    /\ (pipe.status # "none" /\ pipe.kind \notin SupportedKinds) =>
          pipe.status \in {"panic", "error"}
    /\ pipe.status = "panic" => pipe.kind \notin SupportedKinds
    /\ Constructed =>
          /\ pipe.kind \in SupportedKinds
          /\ pipe.kind = "Normal" => (pipe.model = "Normal" /\ ~pipe.is_lora)
          /\ pipe.kind = "XLoraNormal" => (pipe.model = "XLoraNormal" /\ ~pipe.is_lora)
          /\ pipe.kind = "LoraNormal" => (pipe.model = "XLoraNormal" /\ pipe.is_lora)

C13_Witness ==
    /\ pipe.status = "panic"
    /\ pipe.arch = "llama"
    /\ pipe.kind = "LoraGGML"

----------------------------------------------------------------------------
(* Properties of the loaders (checked under SpecLoader) *)

\* The Pipelines constructed so far.
BuiltPipelines == {i \in DOMAIN pipelines : pipelines[i].pipe.status = "built"}

\* C14: the EOS token set of every constructed pipeline contains the id of the
\* chat template's end token; for Llama it additionally holds the id of the
\* stop marker "<|eot_id|>" exactly when the tokenizer can encode the marker,
\* and no entry for the marker otherwise; for Gemma it is the chat template's
\* end token alone.
C14_EosTokens ==
    \A i \in BuiltPipelines :
        /\ Len(pipelines[i].eos_tok) >= 1
        /\ pipelines[i].eos_tok[1] = TokenId(TemplateEos)
        /\ pipelines[i].pipe.arch = "llama" =>
              /\ (TokenId(EotMarker) \in SeqToSet(pipelines[i].eos_tok))
                    <=> pipelines[i].encodes_eot
              /\ pipelines[i].eos_tok =
                    IF pipelines[i].encodes_eot
                    THEN <<TokenId(TemplateEos), TokenId(EotMarker)>>
                    ELSE <<TokenId(TemplateEos)>>
        /\ pipelines[i].pipe.arch = "gemma" =>
              pipelines[i].eos_tok = <<TokenId(TemplateEos)>>

C14_Witness ==
    \E i, j \in BuiltPipelines :
        /\ pipelines[i].pipe.arch = "llama" /\ pipelines[i].encodes_eot
        /\ TokenId(EotMarker) \in SeqToSet(pipelines[i].eos_tok)
        /\ pipelines[j].pipe.arch = "llama" /\ ~pipelines[j].encodes_eot
        /\ TokenId(EotMarker) \notin SeqToSet(pipelines[j].eos_tok)

\* C15: a pipeline holds a NonGranularState iff a target non-granular index
\* was given to its loader; when present it carries the requested target index
\* and a counter of its own, shared with no other pipeline built by the same
\* or another loader, which starts at 0 and moves only with this pipeline's
\* forward calls; when absent get_non_granular_state() stays None.
C15_NonGranularStateFresh ==
    \A i \in BuiltPipelines :
        /\ get_non_granular_state(pipelines[i].pipe).some <=> pipelines[i].tgt.some
        /\ pipelines[i].tgt.some =>
              /\ get_non_granular_state(pipelines[i].pipe) = SomeIdx(pipelines[i].tgt.idx)
              /\ pipelines[i].cell \in DOMAIN counters
              /\ counters[pipelines[i].cell] = pipelines[i].advanced
              /\ \A j \in BuiltPipelines \ {i} : pipelines[j].cell # pipelines[i].cell
        /\ ~pipelines[i].tgt.some =>
              /\ get_non_granular_state(pipelines[i].pipe) = NoneIdx
              /\ pipelines[i].cell = 0
              /\ pipelines[i].advanced = 0

C15_Witness ==
    \E i, j \in BuiltPipelines :
        /\ i < j
        /\ pipelines[i].pipe.arch = pipelines[j].pipe.arch
        /\ pipelines[i].pipe.kind = "XLoraNormal" /\ pipelines[j].pipe.kind = "XLoraNormal"
        /\ pipelines[i].tgt = SomeIdx(TgtIndex) /\ pipelines[j].tgt = SomeIdx(TgtIndex)
        /\ counters[pipelines[i].cell] = MaxSteps
        /\ counters[pipelines[j].cell] = 0

----------------------------------------------------------------------------
(* Properties of the shared Pipelines (checked under SpecServer) *)

\* The threads inside a forward call, or inside an accessor, of Pipeline i.
InForward(i) == {t \in DOMAIN threads : threads[t].pc = "forward" /\ threads[t].p = i}
InAccessor(i) == {t \in DOMAIN threads : threads[t].pc = "accessor" /\ threads[t].p = i}

\* C16: under every interleaving of the scheduler threads at most one forward
\* call runs against a Pipeline at a time, no accessor runs while a forward
\* call works on the KV cache, the thread inside forward or an accessor is
\* the one holding the Pipeline's Mutex, and a forward call on the Pipeline
\* of one loaded model leaves the cache of the other alone.
C16_ForwardExclusive ==
    \A i \in DOMAIN mutexes :
        /\ Cardinality(InForward(i)) <= 1
        /\ InForward(i) # {} => InAccessor(i) = {}
        /\ \A t \in InForward(i) \cup InAccessor(i) : mutexes[i] = t
        /\ \A t \in InForward(i) : caches[i].writer = t
        /\ InForward(i) = {} => caches[i].writer = 0
        /\ \A t \in DOMAIN threads :
              (threads[t].pc # "idle" /\ threads[t].p = i) => mutexes[i] = t

C16_Witness ==
    /\ InForward(1) # {}
    /\ InForward(2) # {}
    /\ caches[1].len > 0

====
